---- MODULE Spec2Model ----
(***************************************************************************)
(* Model of lidar_point_CNN_SVM_training.py: the sequence synchronizer     *)
(* (extract_data_from_bag), the sample normalizer (plot3d_point_clouds,    *)
(* adjust_point_cloud_lengths) and the training driver (train_and_predict, *)
(* invoked twice at module level).                                          *)
(*                                                                         *)
(* Representation.  A bag is the sequence of its messages.  A Python dict  *)
(* is the sequence of its items in insertion order.  A 1-D numpy array is  *)
(* the sequence of its elements, a 2-D array the sequence of its rows.     *)
(* Pose components are floats on which the modelled code does no           *)
(* arithmetic; they are symbols (strings), and so are not-a-number and the *)
(* column labels of the pose table.                                        *)
(***************************************************************************)
EXTENDS Integers, Sequences, FiniteSets

\* ------------------------------------------------------------------ bounds
\* Longest bag (number of messages) explored.
MaxLogLen == 3

\* Sequence numbers a message header may carry.
SeqNums == {10, 20, 35}

\* Offsets extract_data_from_bag is called with when it is checked on its own.
Offsets == {-25, 0, 25}

\* Raw byte lengths of the point clouds the script is run on: an empty cloud,
\* 7 bytes (three rows after two bytes of padding), 12 bytes (four rows),
\* 62 bytes (21 rows after one byte of padding).
RawLengths == {0, 7, 12, 62}

\* Raw byte lengths extract_data_from_bag is checked with on its own.
SyncLengths == {1, 12}

\* ------------------------------------------------------------------ inputs
CloudTopic == "/lidar_localizer/aligned_cloud"
PoseTopic == "/lidar_localizer/lidar_pose"
OtherTopic == "/tf"

\* The n bytes of an explored cloud (uint8 values, none of them zero).
RawData(n) == [j \in 1..n |-> 1 + ((j * 37) % 255)]

PoseA == <<"x1", "y1", "z1", "qx1", "qy1", "qz1", "qw1">>
PoseB == <<"x2", "y2", "z2", "qx2", "qy2", "qz2", "qw2">>

Messages(lengths) ==
    [topic : {CloudTopic}, seq : SeqNums, data : {RawData(n) : n \in lengths}]
    \cup [topic : {PoseTopic}, seq : SeqNums, pose : {PoseA, PoseB}]
    \cup [topic : {OtherTopic}, seq : {10}]

Bags(lengths) == UNION {[1..n -> Messages(lengths)] : n \in 0..MaxLogLen}

\* ------------------------------------------------------------ Python dicts
\* dict(): point_cloud_data = {}, lidar_transform_data = {}.
EmptyDict == <<>>

\* key in d
HasKey(d, k) == \E i \in 1..Len(d) : d[i].key = k

\* d[k]
Get(d, k) == d[CHOOSE i \in 1..Len(d) : d[i].key = k].val

\* A store that keeps the first value stored under a key.
PutKeepFirst(d, k, v) ==
    IF HasKey(d, k) THEN d ELSE Append(d, [key |-> k, val |-> v])

\* d[k] = v: a new key goes to the end, an existing key keeps its place and
\* takes the new value.
Put(d, k, v) ==
    IF HasKey(d, k)
    THEN [i \in 1..Len(d) |-> IF d[i].key = k THEN [key |-> k, val |-> v] ELSE d[i]]
    ELSE Append(d, [key |-> k, val |-> v])

\* d.keys(), in insertion order
Keys(d) == [i \in 1..Len(d) |-> d[i].key]

\* ------------------------------------------------------------ numpy pieces
NaN == "nan"

\* [np.nan]*7
SentinelPose == [j \in 1..7 |-> NaN]

Zeros(n) == [j \in 1..n |-> 0]

NeededPaddingWrongSign(n) == n % 3

\* needed_padding = (-len(cloud) % 3)
NeededPadding(n) == (0 - n) % 3

\* np.pad(cloud, (0, needed_padding), mode='constant') when needed_padding is
\* not zero, the cloud itself otherwise.
PadCloud(cloud) ==
    IF NeededPadding(Len(cloud)) # 0
    THEN cloud \o Zeros(NeededPadding(Len(cloud)))
    ELSE cloud

\* arr.reshape(-1, w) of a 1-D array whose size is a multiple of w
Reshape(flat, w) ==
    [r \in 1..(Len(flat) \div w) |-> [c \in 1..w |-> flat[(r - 1) * w + c]]]

\* The elements of a 2-D array of width w, row by row.
Flatten(rows, w) ==
    [j \in 1..(Len(rows) * w) |-> rows[((j - 1) \div w) + 1][((j - 1) % w) + 1]]

\* ------------------------------------------------------------------- state
VARIABLES
    pc,                    \* where the script is
    calls,                 \* calls of train_and_predict started
    bag,                   \* the messages of the bag file
    bag_open,              \* the rosbag.Bag handle is open
    opens,                 \* times the bag file was opened
    seq_offset,
    pos,                   \* next message bag.read_messages() yields
    point_cloud_data,      \* dict seq -> raw bytes
    lidar_transform_data,  \* dict seq -> pose
    synced_point_clouds,
    synced_poses,
    point_clouds,          \* what plot3d_point_clouds returned
    lidar_poses,           \* the DataFrame extract_data_from_bag returns
    min_length,            \* <<>> while unassigned, <<m>> once computed
    adjusted_point_clouds,
    expanded_poses,
    input_data,
    fits,                  \* model.fit calls that returned
    saves,                 \* model.save calls that returned
    error                  \* the uncaught exception, "" while there is none

vars == <<pc, calls, bag, bag_open, opens, seq_offset, pos, point_cloud_data,
          lidar_transform_data, synced_point_clouds, synced_poses, point_clouds,
          lidar_poses, min_length, adjusted_point_clouds, expanded_poses,
          input_data, fits, saves, error>>

\* The locals of one call of train_and_predict and of its callees.
locals == <<pos, point_cloud_data, lidar_transform_data, synced_point_clouds,
            synced_poses, point_clouds, lidar_poses, min_length,
            adjusted_point_clouds, expanded_poses, input_data>>

PoseColumns == <<"pos_x", "pos_y", "pos_z", "ori_x", "ori_y", "ori_z", "ori_w">>

\* pd.DataFrame(rows, columns=[...])
DataFrame(rows) == [columns |-> PoseColumns, rows |-> rows]

FreshLocals ==
    /\ pos = 1
    /\ point_cloud_data = EmptyDict
    /\ lidar_transform_data = EmptyDict
    /\ synced_point_clouds = <<>>
    /\ synced_poses = <<>>
    /\ point_clouds = <<>>
    /\ lidar_poses = DataFrame(<<>>)
    /\ min_length = <<>>
    /\ adjusted_point_clouds = <<>>
    /\ expanded_poses = <<>>
    /\ input_data = <<>>

\* The script before its first statement at module level runs.
Init ==
    /\ pc = "main"
    /\ calls = 0
    /\ bag \in Bags(RawLengths)
    /\ bag_open = FALSE
    /\ opens = 0
    /\ seq_offset = 0
    /\ fits = 0
    /\ saves = 0
    /\ error = ""
    /\ FreshLocals

\* extract_data_from_bag(bag_file, seq_offset) called on its own.
SyncInit ==
    /\ pc = "open"
    /\ calls = 0
    /\ bag \in Bags(SyncLengths)
    /\ bag_open = FALSE
    /\ opens = 0
    /\ seq_offset \in Offsets
    /\ fits = 0
    /\ saves = 0
    /\ error = ""
    /\ FreshLocals

\* ----------------------------------------------------- extract_data_from_bag
\* bag = rosbag.Bag(bag_file); the two dicts start empty.
OpenBag ==
    /\ pc = "open"
    /\ bag_open' = TRUE
    /\ opens' = opens + 1
    /\ pos' = 1
    /\ point_cloud_data' = EmptyDict
    /\ lidar_transform_data' = EmptyDict
    /\ pc' = "read"
    /\ UNCHANGED <<calls, bag, seq_offset, synced_point_clouds, synced_poses,
                   point_clouds, lidar_poses, min_length, adjusted_point_clouds,
                   expanded_poses, input_data, fits, saves, error>>

\* A reader that matches while it reads: a pose is stored only when the cloud
\* it belongs to has been read already.
ReadStepStreaming(dicts, msg, offset) ==
    IF msg.topic = CloudTopic
    THEN [dicts EXCEPT !.clouds = Put(@, msg.seq, msg.data)]
    ELSE IF msg.topic = PoseTopic /\ HasKey(dicts.clouds, msg.seq - offset)
         THEN [dicts EXCEPT !.poses = Put(@, msg.seq, msg.pose)]
         ELSE dicts

\* The body of the loop over bag.read_messages() for one message.
ReadStep(dicts, msg, offset) ==
    IF msg.topic = CloudTopic
    THEN [dicts EXCEPT !.clouds = Put(@, msg.seq, msg.data)]
    ELSE IF msg.topic = PoseTopic
         THEN [dicts EXCEPT !.poses = Put(@, msg.seq, msg.pose)]
         ELSE dicts

ReadMessage ==
    /\ pc = "read"
    /\ pos <= Len(bag)
    /\ LET after == ReadStep([clouds |-> point_cloud_data,
                              poses |-> lidar_transform_data], bag[pos], seq_offset)
       IN /\ point_cloud_data' = after.clouds
          /\ lidar_transform_data' = after.poses
    /\ pos' = pos + 1
    /\ UNCHANGED <<pc, calls, bag, bag_open, opens, seq_offset, synced_point_clouds,
                   synced_poses, point_clouds, lidar_poses, min_length,
                   adjusted_point_clouds, expanded_poses, input_data, fits, saves,
                   error>>

\* bag.close(), once read_messages() is exhausted.
CloseBag ==
    /\ pc = "read"
    /\ pos > Len(bag)
    /\ bag_open' = FALSE
    /\ pc' = "sync"
    /\ UNCHANGED <<calls, bag, opens, seq_offset, pos, point_cloud_data,
                   lidar_transform_data, synced_point_clouds, synced_poses,
                   point_clouds, lidar_poses, min_length, adjusted_point_clouds,
                   expanded_poses, input_data, fits, saves, error>>

\* A synchronizer that drops a cloud without a pose.
RECURSIVE SyncLoopDropping(_, _, _, _, _)
SyncLoopDropping(keys, clouds, poses, offset, acc) ==
    IF keys = <<>> THEN acc
    ELSE LET seq == Head(keys)
             corresponding_pose_seq == seq + offset
         IN SyncLoopDropping(Tail(keys), clouds, poses, offset,
               IF HasKey(poses, corresponding_pose_seq)
               THEN [clouds |-> Append(acc.clouds, Get(clouds, seq)),
                     poses |-> Append(acc.poses, Get(poses, corresponding_pose_seq))]
               ELSE acc)

\* for seq in point_cloud_data.keys(): ... over the keys still to visit, acc
\* being the two lists built so far.
RECURSIVE SyncLoop(_, _, _, _, _)
SyncLoop(keys, clouds, poses, offset, acc) ==
    IF keys = <<>> THEN acc
    ELSE LET seq == Head(keys)
             corresponding_pose_seq == seq + offset
         IN SyncLoop(Tail(keys), clouds, poses, offset,
               IF HasKey(poses, corresponding_pose_seq)
               THEN [clouds |-> Append(acc.clouds, Get(clouds, seq)),
                     poses |-> Append(acc.poses, Get(poses, corresponding_pose_seq))]
               ELSE [clouds |-> Append(acc.clouds, Get(clouds, seq)),
                     poses |-> Append(acc.poses, SentinelPose)])

Synchronize ==
    /\ pc = "sync"
    /\ LET out == SyncLoop(Keys(point_cloud_data), point_cloud_data,
                           lidar_transform_data, seq_offset,
                           [clouds |-> <<>>, poses |-> <<>>])
       IN /\ synced_point_clouds' = out.clouds
          /\ synced_poses' = out.poses
    /\ pc' = "plot"
    /\ UNCHANGED <<calls, bag, bag_open, opens, seq_offset, pos, point_cloud_data,
                   lidar_transform_data, point_clouds, lidar_poses, min_length,
                   adjusted_point_clouds, expanded_poses, input_data, fits, saves,
                   error>>

\* ------------------------------------------------------- plot3d_point_clouds
\* The clouds the loop of plot3d_point_clouds rejects after padding.
NotDivisible(clouds) ==
    {i \in 1..Len(clouds) : Len(PadCloud(clouds[i])) % 3 # 0}

\* reshaped_clouds: each cloud padded, then cloud.reshape(-1, 3).
ReshapedClouds(clouds) ==
    [i \in 1..Len(clouds) |-> Reshape(PadCloud(clouds[i]), 3)]

\* point_cloud_data = plot3d_point_clouds(synced_point_clouds, synced_poses),
\* then the return of extract_data_from_bag with the pose table.
PlotPointClouds ==
    /\ pc = "plot"
    /\ IF NotDivisible(synced_point_clouds) # {}
       THEN /\ error' = "ValueError: The total number of elements in the list must be divisible by 3."
            /\ pc' = "aborted"
            /\ UNCHANGED <<point_clouds, lidar_poses>>
       ELSE /\ point_clouds' = ReshapedClouds(synced_point_clouds)
            /\ lidar_poses' = DataFrame(synced_poses)
            /\ pc' = "extracted"
            /\ UNCHANGED error
    /\ UNCHANGED <<calls, bag, bag_open, opens, seq_offset, pos, point_cloud_data,
                   lidar_transform_data, synced_point_clouds, synced_poses,
                   min_length, adjusted_point_clouds, expanded_poses, input_data,
                   fits, saves>>

\* ------------------------------------------------ adjust_point_cloud_lengths
Min(S) == CHOOSE m \in S : \A x \in S : m <= x

AllLengths(clouds) == {Len(clouds[i]) : i \in 1..Len(clouds)}

\* len(pc) for pc in point_clouds if len(pc) % 3 == 0: len of a reshaped cloud
\* is its number of rows.
CandidateLengths(clouds) ==
    {Len(clouds[i]) : i \in {j \in 1..Len(clouds) : Len(clouds[j]) % 3 = 0}}

MinOrZero(S) ==
    IF S = {} THEN [raised |-> FALSE, value |-> 0]
    ELSE [raised |-> FALSE, value |-> Min(S)]

\* min(...) of a generator: ValueError when it yields nothing.
MinOf(S) ==
    IF S = {} THEN [raised |-> TRUE, value |-> 0]
    ELSE [raised |-> FALSE, value |-> Min(S)]

\* zip(point_clouds, lidar_poses): iterating a DataFrame yields its column
\* labels, so cloud i is paired with label i and the zip ends with the shorter.
ZipWithFrame(clouds, frame) ==
    [i \in 1..(IF Len(clouds) <= Len(frame.columns) THEN Len(clouds)
               ELSE Len(frame.columns))
       |-> [pc |-> clouds[i], pose |-> frame.columns[i]]]

\* np.repeat([pose], min_length, axis=0) of a scalar pose: [pose] is a 1-D
\* array of one element, the result a 1-D array of min_length elements.
Repeat(pose, n) == [ndim |-> 1, flat |-> [j \in 1..n |-> pose]]

\* pc[:n]
Truncate(cloud, n) == SubSeq(cloud, 1, n)

\* One pass of the loop body for a cloud with len(pc) >= min_length: the pose
\* repeated, padded when its size is no multiple of 7, reshaped to 7 columns.
\* np.pad with a pad width for two axes raises on a 1-D array.
ExpandPose(pose, n) ==
    LET repeated_pose == Repeat(pose, n)
        total_elements == Len(repeated_pose.flat)
        needed_padding == (0 - total_elements) % 7
    IN IF needed_padding > 0
       THEN IF repeated_pose.ndim = 2
            THEN [raised |-> FALSE,
                  value |-> Reshape(repeated_pose.flat \o [j \in 1..needed_padding |-> NaN], 7)]
            ELSE [raised |-> TRUE, value |-> <<>>]
       ELSE [raised |-> FALSE, value |-> Reshape(repeated_pose.flat, 7)]

\* for pc, pose in zip(point_clouds, lidar_poses): ... over the pairs still to
\* visit; the loop stops at the first exception.
RECURSIVE AdjustLoop(_, _, _)
AdjustLoop(pairs, n, acc) ==
    IF pairs = <<>> \/ acc.raised THEN acc
    ELSE LET pc_ == Head(pairs).pc
             expanded == ExpandPose(Head(pairs).pose, n)
         IN AdjustLoop(Tail(pairs), n,
               IF Len(pc_) >= n
               THEN IF expanded.raised
                    THEN [acc EXCEPT !.raised = TRUE]
                    ELSE [raised |-> FALSE,
                          clouds |-> Append(acc.clouds, Truncate(pc_, n)),
                          poses |-> Append(acc.poses, expanded.value)]
               ELSE acc)

\* extract_and_adjust_data hands the reshaped clouds and the pose table to
\* adjust_point_cloud_lengths.
AdjustPointCloudLengths ==
    /\ pc = "extracted"
    /\ LET m == MinOf(CandidateLengths(point_clouds))
           out == AdjustLoop(ZipWithFrame(point_clouds, lidar_poses), m.value,
                             [raised |-> FALSE, clouds |-> <<>>, poses |-> <<>>])
       IN IF m.raised
          THEN /\ error' = "ValueError: min() arg is an empty sequence"
               /\ pc' = "aborted"
               /\ UNCHANGED <<min_length, adjusted_point_clouds, expanded_poses>>
          ELSE IF out.raised
          THEN /\ error' = "ValueError: np.pad"
               /\ pc' = "aborted"
               /\ min_length' = <<m.value>>
               /\ UNCHANGED <<adjusted_point_clouds, expanded_poses>>
          ELSE /\ min_length' = <<m.value>>
               /\ adjusted_point_clouds' = out.clouds
               /\ expanded_poses' = out.poses
               /\ pc' = "adjusted"
               /\ UNCHANGED error
    /\ UNCHANGED <<calls, bag, bag_open, opens, seq_offset, pos, point_cloud_data,
                   lidar_transform_data, synced_point_clouds, synced_poses,
                   point_clouds, lidar_poses, input_data, fits, saves>>

\* ------------------------------------------------------------ training driver
\* np.concatenate([pc.reshape(-1, 3), lp], axis=1): the two arrays must have
\* the same number of rows.
CanConcatenate(clouds, poses) ==
    \A i \in 1..Len(clouds) : Len(clouds[i]) = Len(poses[i])

RECURSIVE VStack(_)
VStack(arrays) ==
    IF arrays = <<>> THEN <<>> ELSE Head(arrays) \o VStack(Tail(arrays))

\* prepare_data_for_training: np.vstack of an empty list raises.
PrepareData ==
    /\ pc = "adjusted"
    /\ IF adjusted_point_clouds = <<>> \/ ~CanConcatenate(adjusted_point_clouds, expanded_poses)
       THEN /\ error' = "ValueError: prepare_data_for_training"
            /\ pc' = "aborted"
            /\ UNCHANGED input_data
       ELSE /\ input_data' = VStack([i \in 1..Len(adjusted_point_clouds) |->
                                [r \in 1..Len(adjusted_point_clouds[i]) |->
                                    adjusted_point_clouds[i][r] \o expanded_poses[i][r]]])
            /\ pc' = "split"
            /\ UNCHANGED error
    /\ UNCHANGED <<calls, bag, bag_open, opens, seq_offset, pos, point_cloud_data,
                   lidar_transform_data, synced_point_clouds, synced_poses,
                   point_clouds, lidar_poses, min_length, adjusted_point_clouds,
                   expanded_poses, fits, saves>>

\* seq_offset = 25
TrainOffset == 25

\* The two statements train_and_predict('....bag') at module level; each call
\* starts with locals of its own.
CallsInScript == 2

CallTrainAndPredict ==
    /\ pc = "main"
    /\ calls < CallsInScript
    /\ calls' = calls + 1
    /\ seq_offset' = TrainOffset
    /\ pos' = 1
    /\ point_cloud_data' = EmptyDict
    /\ lidar_transform_data' = EmptyDict
    /\ synced_point_clouds' = <<>>
    /\ synced_poses' = <<>>
    /\ point_clouds' = <<>>
    /\ lidar_poses' = DataFrame(<<>>)
    /\ min_length' = <<>>
    /\ adjusted_point_clouds' = <<>>
    /\ expanded_poses' = <<>>
    /\ input_data' = <<>>
    /\ pc' = "open"
    /\ UNCHANGED <<bag, bag_open, opens, fits, saves, error>>

\* train_test_split(point_clouds, poses, test_size=0.2), when it returns.
TrainTestSplit ==
    /\ pc = "split"
    /\ pc' = "fit"
    /\ UNCHANGED <<calls, bag, bag_open, opens, seq_offset, locals, fits, saves, error>>

\* create_slfn_model(input_shape) and model.fit(...), when they return.
Fit ==
    /\ pc = "fit"
    /\ fits' = fits + 1
    /\ pc' = "save"
    /\ UNCHANGED <<calls, bag, bag_open, opens, seq_offset, locals, saves, error>>

\* model.save(...), when it returns.
SaveModel ==
    /\ pc = "save"
    /\ saves' = saves + 1
    /\ pc' = "predict"
    /\ UNCHANGED <<calls, bag, bag_open, opens, seq_offset, locals, fits, error>>

\* model.predict and plot2d_lidar_positions, when they return: the call of
\* train_and_predict is over.
PredictAndPlot ==
    /\ pc = "predict"
    /\ pc' = "main"
    /\ UNCHANGED <<calls, bag, bag_open, opens, seq_offset, locals, fits, saves, error>>

\* A call into the ML framework raises; nothing catches it.
FrameworkRaises ==
    /\ pc \in {"split", "fit", "save", "predict"}
    /\ error' = "framework error"
    /\ pc' = "aborted"
    /\ UNCHANGED <<calls, bag, bag_open, opens, seq_offset, locals, fits, saves>>

Next ==
    \/ CallTrainAndPredict
    \/ OpenBag
    \/ ReadMessage
    \/ CloseBag
    \/ Synchronize
    \/ PlotPointClouds
    \/ AdjustPointCloudLengths
    \/ PrepareData
    \/ TrainTestSplit
    \/ Fit
    \/ SaveModel
    \/ PredictAndPlot
    \/ FrameworkRaises

Spec == Init /\ [][Next]_vars

SyncNext ==
    \/ OpenBag
    \/ ReadMessage
    \/ CloseBag
    \/ Synchronize
    \/ PlotPointClouds

SyncSpec == SyncInit /\ [][SyncNext]_vars
\* ------------------------------------------------- what the bag file holds
CloudMsgs(b) == SelectSeq(b, LAMBDA m : m.topic = CloudTopic)
PoseMsgs(b) == SelectSeq(b, LAMBDA m : m.topic = PoseTopic)

\* The sequence numbers of msgs, each once, in the order of first arrival.
RECURSIVE DistinctSeqs(_)
DistinctSeqs(msgs) ==
    IF msgs = <<>> THEN <<>>
    ELSE LET front == SubSeq(msgs, 1, Len(msgs) - 1)
             last == msgs[Len(msgs)]
         IN IF \E j \in 1..Len(front) : front[j].seq = last.seq
            THEN DistinctSeqs(front)
            ELSE Append(DistinctSeqs(front), last.seq)

Carries(msgs, s) == \E i \in 1..Len(msgs) : msgs[i].seq = s

\* The last message of msgs that carries sequence number s.
LastWith(msgs, s) ==
    msgs[CHOOSE i \in 1..Len(msgs) :
            /\ msgs[i].seq = s
            /\ \A j \in (i + 1)..Len(msgs) : msgs[j].seq # s]

\* Rows of a cloud of n raw bytes once padded to a multiple of 3.
RowsOf(n) == (n + 2) \div 3

Synchronized == pc \in {"plot", "extracted"}

\* The pose the bag holds for cloud sequence number s: the pose stored under
\* s + seq_offset, the sentinel when the bag has none.
PoseForSeq(s) ==
    IF Carries(PoseMsgs(bag), s + seq_offset)
    THEN LastWith(PoseMsgs(bag), s + seq_offset).pose
    ELSE SentinelPose

\* ------------------------------------------------------------------ claims
\* C1: for every bag and every offset, each point cloud (identified by its
\* sequence number s) is in the synchronizer's output, paired with the pose of
\* sequence number s + offset when the bag holds one and with the sentinel pose
\* of 7 not-a-number values when it holds none; no cloud is dropped for want of
\* a pose.
C1_MatchOrSentinel ==
    Synchronized =>
        LET seqs == DistinctSeqs(CloudMsgs(bag))
        IN /\ Len(synced_point_clouds) = Len(seqs)
           /\ Len(synced_poses) = Len(seqs)
           /\ \A i \in 1..Len(seqs) :
                 /\ synced_point_clouds[i] = LastWith(CloudMsgs(bag), seqs[i]).data
                 /\ synced_poses[i] = PoseForSeq(seqs[i])
                 /\ Len(synced_poses[i]) = 7

\* A synchronized bag with a matched cloud and, after it, an unmatched one.
C1_Witness ==
    /\ Synchronized
    /\ \E i, j \in 1..Len(synced_poses) :
          /\ i < j
          /\ synced_poses[i] \in {PoseA, PoseB}
          /\ synced_poses[j] = SentinelPose

\* C2 as stated: the two returned sequences have one entry per point-cloud
\* record of the bag, in arrival order, entry i being the (padded, reshaped)
\* data of the i-th point-cloud record.
C2_OnePairPerRecord ==
    pc = "extracted" =>
        /\ Len(point_clouds) = Len(CloudMsgs(bag))
        /\ Len(lidar_poses.rows) = Len(CloudMsgs(bag))
        /\ \A i \in 1..Len(point_clouds) :
              SubSeq(Flatten(point_clouds[i], 3), 1, Len(CloudMsgs(bag)[i].data))
                 = CloudMsgs(bag)[i].data

\* C2 amended: the two returned sequences have equal length, one entry per
\* distinct point-cloud sequence number, in the order in which the sequence
\* numbers first arrive, entry i being the data (zero-padded and reshaped) of
\* the last record read with that sequence number.
C2_OnePairPerSeq ==
    pc = "extracted" =>
        LET seqs == DistinctSeqs(CloudMsgs(bag))
        IN /\ Len(point_clouds) = Len(seqs)
           /\ Len(lidar_poses.rows) = Len(seqs)
           /\ \A i \in 1..Len(seqs) :
                 LET data == LastWith(CloudMsgs(bag), seqs[i]).data
                 IN /\ Len(point_clouds[i]) = RowsOf(Len(data))
                    /\ SubSeq(Flatten(point_clouds[i], 3), 1, Len(data)) = data

\* Two sequence numbers returned, the first of them read twice with different
\* data.
C2_Witness ==
    /\ pc = "extracted"
    /\ Len(point_clouds) = 2
    /\ Len(CloudMsgs(bag)) = 3
    /\ CloudMsgs(bag)[1].seq = CloudMsgs(bag)[3].seq
    /\ CloudMsgs(bag)[1].data # CloudMsgs(bag)[3].data

\* C3 as stated: min_length is the minimum row count over exactly the clouds
\* whose raw length was divisible by 3.
C3_MinOverRawAligned ==
    LET aligned == {i \in 1..Len(synced_point_clouds) : Len(synced_point_clouds[i]) % 3 = 0}
    IN /\ min_length # <<>> =>
             /\ aligned # {}
             /\ min_length[1] = Min({Len(point_clouds[i]) : i \in aligned})
       /\ error = "ValueError: min() arg is an empty sequence" => aligned = {}

\* C3 amended: min_length is the minimum row count over exactly the clouds
\* whose row count after padding and reshaping is divisible by 3 (padded length
\* divisible by 9); whether the raw length was divisible by 3 plays no part.
C3_MinOverRowAligned ==
    LET rows == [i \in 1..Len(synced_point_clouds) |-> RowsOf(Len(synced_point_clouds[i]))]
        aligned == {i \in 1..Len(rows) : (3 * rows[i]) % 9 = 0}
    IN /\ min_length # <<>> =>
             /\ aligned # {}
             /\ min_length[1] = Min({rows[i] : i \in aligned})
       /\ error = "ValueError: min() arg is an empty sequence" => aligned = {}

\* min_length 21 comes from a cloud of 62 raw bytes while a cloud of 12 raw
\* bytes (4 rows) is in the batch.
C3_Witness ==
    /\ pc = "adjusted"
    /\ min_length = <<21>>
    /\ \E i, j \in 1..Len(synced_point_clouds) :
          /\ Len(synced_point_clouds[i]) = 62
          /\ Len(synced_point_clouds[j]) = 12

\* C4: whenever the normalizer returns, every cloud of the synchronizer is kept,
\* truncated to min_length rows.
C4_NoCloudDiscarded ==
    pc = "adjusted" =>
        /\ Len(adjusted_point_clouds) = Len(synced_point_clouds)
        /\ \A i \in 1..Len(adjusted_point_clouds) :
              adjusted_point_clouds[i] = SubSeq(point_clouds[i], 1, min_length[1])

\* The clouds adjust_point_cloud_lengths retains, by their place in the batch.
Retained ==
    SelectSeq([i \in 1..Len(point_clouds) |-> i],
              LAMBDA i : i <= 7 /\ Len(point_clouds[i]) >= min_length[1])

\* C5: for every retained cloud the expanded pose has min_length rows of 7
\* values, each row the pose the synchronizer paired with that cloud.
C5_PoseInEveryRow ==
    pc = "adjusted" =>
        \A i \in 1..Len(expanded_poses) :
            /\ Len(expanded_poses[i]) = min_length[1]
            /\ \A r \in 1..Len(expanded_poses[i]) :
                  expanded_poses[i][r] = lidar_poses.rows[Retained[i]]

\* C6 as stated: when no cloud has a raw length divisible by 3 the normalizer
\* never returns a batch.
C6_NoRawAlignedNoBatch ==
    pc = "adjusted" =>
        \E i \in 1..Len(synced_point_clouds) : Len(synced_point_clouds[i]) % 3 = 0

\* C6 amended: when no cloud has a row count (after padding and reshaping)
\* divisible by 3, the normalizer ends in the error of min() over an empty
\* candidate set and returns no batch.
C6_NoRowAlignedNoBatch ==
    (/\ pc \notin {"main", "open", "read", "sync", "plot", "extracted"}
     /\ \A i \in 1..Len(synced_point_clouds) : RowsOf(Len(synced_point_clouds[i])) % 3 # 0)
    => /\ pc = "aborted"
       /\ error = "ValueError: min() arg is an empty sequence"
       /\ adjusted_point_clouds = <<>>
       /\ expanded_poses = <<>>

\* The error is raised for a batch that holds a cloud of raw length 12,
\* divisible by 3.
C6_Witness ==
    /\ pc = "aborted"
    /\ error = "ValueError: min() arg is an empty sequence"
    /\ \E i \in 1..Len(synced_point_clouds) : Len(synced_point_clouds[i]) = 12

\* C7: in every returned batch all clouds have min_length rows and every
\* expanded pose array has that row count too.
C7_UniformRows ==
    pc = "adjusted" =>
        /\ \A i \in 1..Len(adjusted_point_clouds) :
              Len(adjusted_point_clouds[i]) = min_length[1]
        /\ \A i \in 1..Len(expanded_poses) :
              Len(expanded_poses[i]) = min_length[1]

\* C8: padding appends exactly (-n mod 3) zeros to a cloud of raw length n and
\* changes nothing else, so a cloud of length divisible by 3 is unchanged, every
\* padded length is divisible by 3 and the divisibility error is never raised.
C8_PaddingExact ==
    /\ error # "ValueError: The total number of elements in the list must be divisible by 3."
    /\ (pc = "plot" => \A i \in 1..Len(synced_point_clouds) :
            LET cloud == synced_point_clouds[i]
                k == CHOOSE k \in 0..2 : (Len(cloud) + k) % 3 = 0
            IN /\ PadCloud(cloud) = cloud \o [j \in 1..k |-> 0]
               /\ (Len(cloud) % 3 = 0 => PadCloud(cloud) = cloud))
    /\ (pc \in {"extracted", "adjusted"} =>
          /\ Len(point_clouds) = Len(synced_point_clouds)
          /\ \A i \in 1..Len(synced_point_clouds) :
                LET cloud == synced_point_clouds[i]
                    k == CHOOSE k \in 0..2 : (Len(cloud) + k) % 3 = 0
                IN Flatten(point_clouds[i], 3) = cloud \o [j \in 1..k |-> 0])

\* A batch went through the padding with a cloud that needed two zeros, one
\* that needed one and one that needed none.
C8_Witness ==
    /\ pc = "extracted"
    /\ \E i, j, k \in 1..Len(synced_point_clouds) :
          /\ Len(synced_point_clouds[i]) = 7
          /\ Len(synced_point_clouds[j]) = 62
          /\ Len(synced_point_clouds[k]) = 12
          /\ Len(point_clouds[i]) = 3
          /\ Len(point_clouds[j]) = 21
          /\ Len(point_clouds[k]) = 4

\* C9: in one execution of the script the bag file is opened once, it is closed
\* before synchronization starts, and there is one model fit and one model
\* save.
C9_OneRun ==
    /\ opens <= 1
    /\ fits <= 1
    /\ saves <= 1
    /\ (pc \notin {"main", "open", "read"} => ~bag_open)
    /\ (pc = "main" /\ calls = CallsInScript => opens = 1 /\ fits = 1 /\ saves = 1)

\* What the synchronizer makes of the same point-cloud records and the same
\* pose records when all the clouds come first.
RECURSIVE ReadAll(_, _, _)
ReadAll(msgs, dicts, offset) ==
    IF msgs = <<>> THEN dicts
    ELSE ReadAll(Tail(msgs), ReadStep(dicts, Head(msgs), offset), offset)

CloudsFirst(b) == CloudMsgs(b) \o PoseMsgs(b)

OutputOf(b, offset) ==
    LET dicts == ReadAll(b, [clouds |-> EmptyDict, poses |-> EmptyDict], offset)
    IN SyncLoop(Keys(dicts.clouds), dicts.clouds, dicts.poses, offset,
                [clouds |-> <<>>, poses |-> <<>>])

\* C10: the output does not depend on how the two streams are interleaved: a
\* bag yields what the bag with the same point-cloud records and the same pose
\* records, each in the same relative order but all clouds first, yields.
C10_InterleavingIndependent ==
    Synchronized =>
        /\ synced_point_clouds = OutputOf(CloudsFirst(bag), seq_offset).clouds
        /\ synced_poses = OutputOf(CloudsFirst(bag), seq_offset).poses

\* A pose that arrives before the cloud it matches is still paired with it.
C10_Witness ==
    /\ Synchronized
    /\ \E i, j \in 1..Len(bag) :
          /\ i < j
          /\ bag[i].topic = PoseTopic
          /\ bag[j].topic = CloudTopic
          /\ bag[i].seq = bag[j].seq + seq_offset
          /\ \E n \in 1..Len(synced_poses) :
                /\ synced_point_clouds[n] = bag[j].data
                /\ synced_poses[n] = bag[i].pose
====
